---- MODULE Spec2Model ----
(***************************************************************************)
(* Model of src/pytest_dependency.py: the per-test outcome status, the     *)
(* per-scope-node dependency manager, the manager locator and the two      *)
(* pytest hooks (pytest_runtest_setup, pytest_runtest_makereport) plus the *)
(* runtime call depends(), driven by pytest's sequential run protocol.     *)
(*                                                                         *)
(* Strings are sequences of tokens.  The token alphabet is prefix-free (no *)
(* token is a string prefix of another), so str.startswith on the strings  *)
(* is the prefix relation on the token sequences, and "::" is one token,   *)
(* so str.split("::") and str.replace("::()::", "::") act on tokens.       *)
(***************************************************************************)
EXTENDS Integers, Sequences, FiniteSets, TLC

VARIABLES
    _accept_xfail,      \* module global, line 19
    _automark,          \* module global, line 20
    _ignore_unknown,    \* module global, line 21
    dependencyManager,  \* node -> the node's dependencyManager attribute
    pc,                 \* position of the host runner
    current,            \* the item the runner took last
    gate,               \* the dependency check of the phase: its arguments and outcome
    report,             \* the report the last pytest_runtest_makereport got
    log,                \* the runner's record of each item: marker, name, skipped by the check, outcomes
    done,               \* items whose three phases are over
    call                \* the last direct call of a function of the module, with its outcome

vars == <<_accept_xfail, _automark, _ignore_unknown, dependencyManager,
          pc, current, gate, report, log, done, call>>

----------------------------------------------------------------------------
(* Python values *)

None == "None"

\* str.startswith
startswith(s, p) == Len(p) <= Len(s) /\ SubSeq(s, 1, Len(p)) = p

\* nodeid.replace("::()::", "::"): non-overlapping occurrences, left to right
RECURSIVE replace(_)
replace(s) ==
    IF s = <<>> THEN <<>>
    ELSE IF Len(s) >= 3 /\ SubSeq(s, 1, 3) = <<"::", "()", "::">>
         THEN <<"::">> \o replace(SubSeq(s, 4, Len(s)))
         ELSE <<Head(s)>> \o replace(Tail(s))

\* s.split("::", n): the list of at most n+1 pieces
RECURSIVE split(_, _)
split(s, n) ==
    LET seps == {i \in 1..Len(s) : s[i] = "::"}
    IN IF n = 0 \/ seps = {} THEN <<s>>
       ELSE LET i == CHOOSE j \in seps : \A k \in seps : j <= k
            IN <<SubSeq(s, 1, i - 1)>> \o split(SubSeq(s, i + 1, Len(s)), n - 1)

----------------------------------------------------------------------------
(* class DependencyItemStatus *)

Phases == <<"setup", "call", "teardown">>

Outcomes == {"passed", "failed", "skipped"}

\* a test report as the hook reads it: rep.when, rep.outcome, hasattr(rep, "wasxfail")
Reports == [when : {"setup", "call", "teardown"}, outcome : Outcomes, wasxfail : BOOLEAN]

\* __init__: self.results = {w: None for w in self.Phases}
DependencyItemStatus == [w \in {Phases[i] : i \in 1..Len(Phases)} |-> None]

\* a variant of _accept_xfail that does not read the accept_xfail setting
ItemStatus_accept_xfail_always(rep) ==
    /\ rep.when = "call"
    /\ rep.outcome = "skipped"
    /\ rep.wasxfail

\* DependencyItemStatus._accept_xfail(rep)
ItemStatus_accept_xfail(rep) ==
    /\ _accept_xfail
    /\ rep.when = "call"
    /\ rep.outcome = "skipped"
    /\ rep.wasxfail

\* DependencyItemStatus.addResult(rep): the status after the call
ItemStatus_addResult(status, rep) ==
    [status EXCEPT ![rep.when] =
        IF ItemStatus_accept_xfail(rep) THEN "passed" ELSE rep.outcome]

\* a variant of isSuccess that only looks for phases that failed
isSuccess_no_failure(status) ==
    \A i \in 1..Len(Phases) : status[Phases[i]] # "failed"

\* a variant of isSuccess that only looks for phases that failed or skipped
isSuccess_unset_ok(status) ==
    \A i \in 1..Len(Phases) : status[Phases[i]] \in {"passed", None}

\* DependencyItemStatus.isSuccess(): list(self.results.values()) in phase order
isSuccess(status) ==
    [i \in 1..Len(Phases) |-> status[Phases[i]]] = <<"passed", "passed", "passed">>

----------------------------------------------------------------------------
(* The collected tree: one package holding one module with a function and  *)
(* two classes of one method each; the node id of the method of C2 has the *)
(* "::()" of old pytest versions.                                          *)

Nodes == {"session", "pkg", "mod", "clsC", "clsC2"}

\* the pytest node class of each collector node
NodeCls ==
    [n \in Nodes |->
        CASE n = "session" -> "pytest.Session"
          [] n = "pkg"     -> "pytest.Package"
          [] n = "mod"     -> "pytest.Module"
          [] OTHER         -> "pytest.Class"]

Items == {"create", "modifyC", "modifyC2"}

\* item.nodeid, item.name and the item's chain of parents, root first
ItemInfo ==
    [i \in Items |->
        CASE i = "create" ->
               [nodeid |-> <<"pkg/test_m.py", "::", "test_create">>,
                name   |-> <<"test_create">>,
                chain  |-> <<"session", "pkg", "mod">>]
          [] i = "modifyC" ->
               [nodeid |-> <<"pkg/test_m.py", "::", "C", "::", "test_modify">>,
                name   |-> <<"test_modify">>,
                chain  |-> <<"session", "pkg", "mod", "clsC">>]
          [] OTHER ->
               [nodeid |-> <<"pkg/test_m.py", "::", "C", "2", "::", "()", "::", "test_modify">>,
                name   |-> <<"test_modify">>,
                chain  |-> <<"session", "pkg", "mod", "clsC2">>]]

\* item.getparent(cls): the nearest enclosing node that is an instance of cls
getparent(item, cls) ==
    LET chain == ItemInfo[item].chain
        hits  == {k \in 1..Len(chain) : NodeCls[chain[k]] = cls}
    IN IF hits = {} THEN None
       ELSE chain[CHOOSE k \in hits : \A j \in hits : j <= k]

----------------------------------------------------------------------------
(* Outcomes of a call: normal return, pytest.skip(reason), or an exception *)

Proceed == [kind |-> "proceed", reason |-> <<>>, exc |-> None]
Skip(msg) == [kind |-> "skip", reason |-> msg, exc |-> None]
Raise(exc) == [kind |-> "error", reason |-> <<>>, exc |-> exc]

----------------------------------------------------------------------------
(* class DependencyManager *)

\* DependencyManager.ScopeCls, in the dict's order
ScopeOrder == <<"session", "package", "module", "class">>

ScopeCls ==
    [s \in {ScopeOrder[i] : i \in 1..Len(ScopeOrder)} |->
        CASE s = "session" -> "pytest.Session"
          [] s = "package" -> "pytest.Package"
          [] s = "module"  -> "pytest.Module"
          [] OTHER         -> "pytest.Class"]

\* the value standing for a node without the attribute dependencyManager
NoAttr == [scope |-> None, results |-> <<>>]

\* __init__(scope); self.results is a dict, kept in insertion order
DependencyManager(scope) == [scope |-> scope, results |-> <<>>]

\* the dict self.results: its keys in order, membership, lookup
dict_keys(results) == [i \in 1..Len(results) |-> results[i].name]
dict_has(results, name) == \E i \in 1..Len(results) : results[i].name = name
dict_get(results, name) ==
    results[CHOOSE i \in 1..Len(results) : results[i].name = name].status

\* a variant of setdefault that puts a new status under a name it has already
setdefault_fresh(results, name) ==
    IF dict_has(results, name)
    THEN [i \in 1..Len(results) |->
             IF results[i].name = name
             THEN [name |-> name, status |-> DependencyItemStatus]
             ELSE results[i]]
    ELSE Append(results, [name |-> name, status |-> DependencyItemStatus])

\* a variant of setdefault for a registry kept as a list of entries
setdefault_append(results, name) ==
    Append(results, [name |-> name, status |-> DependencyItemStatus])

\* self.results.setdefault(name, DependencyItemStatus()): the dict afterwards
setdefault(results, name) ==
    IF dict_has(results, name) THEN results
    ELSE Append(results, [name |-> name, status |-> DependencyItemStatus])

\* the node getManager looks at, None when there is none
\* (cls.ScopeCls[scope] raises KeyError for a scope that is no key)
getManagerNode(item, scope) == getparent(item, ScopeCls[scope])

\* a variant of getManager without the hasattr test: a new manager every time
getManagerAttrs_fresh(dm, item, scope) ==
    LET node == getManagerNode(item, scope)
    IN IF node = None THEN dm
       ELSE [dm EXCEPT ![node] = DependencyManager(scope)]

\* getManager(item, scope): the nodes' attributes after the call
getManagerAttrs(dm, item, scope) ==
    LET node == getManagerNode(item, scope)
    IN IF node = None THEN dm
       ELSE IF dm[node] = NoAttr
            THEN [dm EXCEPT ![node] = DependencyManager(scope)]
            ELSE dm

\* getManager(item, scope): the value returned
getManager(dm, item, scope) ==
    LET node == getManagerNode(item, scope)
    IN IF node = None THEN None ELSE getManagerAttrs(dm, item, scope)[node]

\* A name is a token sequence; the empty sequence stands for the falsy names
\* (None and ""), which `if not name` does not tell apart.
NoName == <<>>

\* the exception the name derivation of addResult raises, None when it raises
\* none: IndexError when the split has too few pieces, RuntimeError for an
\* invalid self.scope
derivedNameRaises(scope, nodeid) ==
    IF scope \in {"session", "package"} THEN None
    ELSE IF scope = "module"
         THEN IF Len(split(replace(nodeid), 1)) > 1 THEN None ELSE "IndexError"
    ELSE IF scope = "class"
         THEN IF Len(split(replace(nodeid), 2)) > 2 THEN None ELSE "IndexError"
    ELSE "RuntimeError"

\* a variant of the derivation that leaves the node id as it is
derivedName_as_is(scope, nodeid) ==
    IF scope \in {"session", "package"} THEN nodeid
    ELSE IF scope = "module" THEN split(nodeid, 1)[2]
    ELSE split(nodeid, 2)[3]

\* the name addResult records under when no name is given
derivedName(scope, nodeid) ==
    IF scope \in {"session", "package"} THEN replace(nodeid)
    ELSE IF scope = "module" THEN split(replace(nodeid), 1)[2]
    ELSE split(replace(nodeid), 2)[3]

\* DependencyManager.addResult(item, name, rep) raises
addResultRaises(self, item, name) ==
    IF name = NoName THEN derivedNameRaises(self.scope, ItemInfo[item].nodeid)
    ELSE None

\* DependencyManager.addResult(item, name, rep): the manager afterwards
addResult(self, item, name, rep) ==
    IF addResultRaises(self, item, name) # None THEN self
    ELSE
      LET key == IF name = NoName THEN derivedName(self.scope, ItemInfo[item].nodeid)
                 ELSE name
          results == setdefault(self.results, key)
          i == CHOOSE j \in 1..Len(results) : results[j].name = key
      IN [self EXCEPT !.results =
             [results EXCEPT ![i].status = ItemStatus_addResult(@, rep)]]

\* f"{item.name} depends on {dep}"
reason(item, dep) == ItemInfo[item].name \o <<" depends on ">> \o dep

\* checkDepend, lines 112-134: one name with include_all_instances.  Proceed
\* stands for `continue`.  When no instance fails the for loop runs to its
\* end, so its else clause runs, and both of its ways lead to the next name.
checkInstances(self, dep, item) ==
    LET dep_instances ==
            SelectSeq(dict_keys(self.results), LAMBDA k : startswith(k, dep))
        failing == {i \in 1..Len(dep_instances) :
                       ~isSuccess(dict_get(self.results, dep_instances[i]))}
    IN IF failing # {}
       THEN Skip(reason(item,
                dep_instances[CHOOSE i \in failing : \A j \in failing : i <= j]))
       ELSE IF _ignore_unknown THEN Proceed ELSE Proceed

\* a variant of lines 135-146 that does not read the ignore-unknown option
checkExact_unknown_skips(self, dep, item) ==
    IF dict_has(self.results, dep) /\ isSuccess(dict_get(self.results, dep))
    THEN Proceed
    ELSE Skip(reason(item, dep))

\* checkDepend, lines 135-146: one name without include_all_instances
checkExact(self, dep, item) ==
    IF dict_has(self.results, dep)
    THEN IF isSuccess(dict_get(self.results, dep)) THEN Proceed
         ELSE Skip(reason(item, dep))
    ELSE IF _ignore_unknown THEN Proceed
         ELSE Skip(reason(item, dep))

\* DependencyManager.checkDepend(depends, item, include_all_instances)
RECURSIVE checkDepend(_, _, _, _)
checkDepend(self, depends, item, include_all_instances) ==
    IF depends = <<>> THEN Proceed
    ELSE LET one == IF include_all_instances
                    THEN checkInstances(self, Head(depends), item)
                    ELSE checkExact(self, Head(depends), item)
         IN IF one.kind = "skip" THEN one
            ELSE checkDepend(self, Tail(depends), item, include_all_instances)

----------------------------------------------------------------------------
(* The hooks and the runtime call *)

\* the scopes the callers pass: the four keys of ScopeCls and one that is none
Scopes == {ScopeOrder[i] : i \in 1..Len(ScopeOrder)}
BadScope == "function"

\* a dependency check getManager(item, scope).checkDepend(depends, item, flag):
\* KeyError from ScopeCls[scope], AttributeError from None.checkDepend
gateOutcome(dm, item, depends, scope, include_all_instances) ==
    IF scope \notin DOMAIN ScopeCls THEN Raise("KeyError")
    ELSE IF getManagerNode(item, scope) = None THEN Raise("AttributeError")
    ELSE checkDepend(getManager(dm, item, scope), depends, item, include_all_instances)

\* a variant in which every check starts from a new manager
gateAttrs_fresh(dm, item, scope) ==
    IF scope \notin DOMAIN ScopeCls THEN dm ELSE getManagerAttrs_fresh(dm, item, scope)

\* the nodes' attributes after that check
gateAttrs(dm, item, scope) ==
    IF scope \notin DOMAIN ScopeCls THEN dm ELSE getManagerAttrs(dm, item, scope)

\* A dependency marker: present or not, and its kwargs name, depends, scope
\* (scope = None when the kwarg is not given) and include_all_instances (<<>>
\* when not given, else the one-element list of its value).
NoMarker == [present |-> FALSE, name |-> NoName, depends |-> <<>>, scope |-> None,
             include_all_instances |-> <<>>]

\* marker.kwargs.get("scope", "module")
markerScope(marker) == IF marker.scope = None THEN "module" ELSE marker.scope

\* pytest_runtest_setup(item): whether it reaches the dependency check
setupChecks(marker) == marker.present /\ marker.depends # <<>>

\* pytest_runtest_setup(item): its outcome
runtest_setup(dm, item, marker) ==
    IF setupChecks(marker)
    THEN gateOutcome(dm, item, marker.depends, markerScope(marker), TRUE)
    ELSE Proceed

\* a variant of the loop over the scopes that records at file level only
recordScopes_module_only(dm, scopes, item, name, rep) ==
    LET node == getManagerNode(item, "module")
        dm1  == getManagerAttrs(dm, item, "module")
    IN IF node = None \/ addResultRaises(dm1[node], item, name) # None THEN dm1
       ELSE [dm1 EXCEPT ![node] = addResult(dm1[node], item, name, rep)]

\* pytest_runtest_makereport: the scopes recorded into, one after the other
RECURSIVE recordScopes(_, _, _, _, _)
recordScopes(dm, scopes, item, name, rep) ==
    IF scopes = <<>> THEN dm
    ELSE LET scope == Head(scopes)
             node  == getManagerNode(item, scope)
             dm1   == getManagerAttrs(dm, item, scope)
         IN IF node = None
            THEN recordScopes(dm, Tail(scopes), item, name, rep)
            ELSE IF addResultRaises(dm1[node], item, name) # None
                 THEN dm1
                 ELSE recordScopes(
                        [dm1 EXCEPT ![node] = addResult(dm1[node], item, name, rep)],
                        Tail(scopes), item, name, rep)

\* a variant of the hook that records with automark only
runtest_makereport_automark_only(dm, item, marked, name, rep) ==
    IF _automark
    THEN recordScopes(dm, ScopeOrder, item, IF marked THEN name ELSE NoName, rep)
    ELSE dm

\* a variant of the hook that records every test
runtest_makereport_always(dm, item, marked, name, rep) ==
    recordScopes(dm, ScopeOrder, item, IF marked THEN name ELSE NoName, rep)

\* pytest_runtest_makereport(item, call): the nodes' attributes afterwards
runtest_makereport(dm, item, marked, name, rep) ==
    IF marked \/ _automark
    THEN recordScopes(dm, ScopeOrder, item, IF marked THEN name ELSE NoName, rep)
    ELSE dm

----------------------------------------------------------------------------
(* Inputs *)

\* the longest list of dependency names a marker or a depends() call gives
MaxDeps == 2

\* the number of tests one session runs
MaxTests == 2

\* the names dependency lists are written with: a file-level name of a function,
\* a file-level name of a method, and a proper prefix of both methods' names
DepNames ==
    { <<"test_create">>,
      <<"C", "::", "test_modify">>,
      <<"C">> }

\* the lists of at most n different names of S
RECURSIVE ListsOver(_, _)
ListsOver(S, n) ==
    IF n = 0 THEN {<<>>}
    ELSE LET shorter == ListsOver(S, n - 1)
         IN shorter \cup
            {Append(l, x) : l \in {m \in shorter : Len(m) = n - 1}, x \in S}

NoRepeat(l) == \A i, j \in 1..Len(l) : l[i] = l[j] => i = j

DepLists == {l \in ListsOver(DepNames, MaxDeps) : l # <<>> /\ NoRepeat(l)}

\* the explicit names a marker gives: none, or the file-level name of test_create
MarkerNames == {NoName, <<"test_create">>}

\* the markers with their depends among lists and their scope among scopes
MarkersOver(lists, scopes) ==
    {NoMarker} \cup
    [present : {TRUE}, name : MarkerNames, depends : lists \cup {<<>>}, scope : scopes,
     include_all_instances : {<<>>}]

\* the same markers with the kwarg include_all_instances not given, False, True
Flagged(markers) ==
    {[m EXCEPT !.include_all_instances = f] :
        m \in {k \in markers : k.present}, f \in {<<>>, <<FALSE>>, <<TRUE>>}}
    \cup {m \in markers : ~m.present}

\* one list; class scope, no scope given
FewMarkers == MarkersOver({<<<<"test_create">>>>}, {"class", None})

\* every list, every scope value (the four scopes, an invalid one, none given),
\* every value of include_all_instances
ManyMarkers == Flagged(MarkersOver(DepLists, Scopes \cup {BadScope, None}))

----------------------------------------------------------------------------
(* The run: pytest_configure once, then the run protocol of one item after *)
(* the other, each item at most once, in any order.                        *)

NoItem == [item |-> None, marked |-> FALSE, name |-> NoName]

NoReport == [when |-> None, outcome |-> None, wasxfail |-> FALSE]

\* no direct call made
NoCall == [fn |-> None]

NoGate == [hook |-> None, item |-> None, depends |-> <<>>, scope |-> None,
           given |-> <<>>, include_all_instances |-> FALSE, outcome |-> Proceed]

Init ==
    /\ _accept_xfail = FALSE
    /\ _automark = FALSE
    /\ _ignore_unknown = FALSE
    /\ dependencyManager = [n \in Nodes |-> NoAttr]
    /\ pc = "import"
    /\ current = NoItem
    /\ gate = NoGate
    /\ report = NoReport
    /\ log = [i \in Items |->
                [marked |-> FALSE, name |-> NoName, gated |-> FALSE,
                 setup |-> None, call |-> None, teardown |-> None]]
    /\ done = {}
    /\ call = NoCall

\* pytest_configure(config): the three globals from the ini file and the
\* command line, the ini values among iniValues and the option among optValues
pytest_configure(iniValues, optValues) ==
    /\ pc = "import"
    /\ \E ax \in iniValues, am \in iniValues, iu \in optValues :
         /\ _accept_xfail' = ax
         /\ _automark' = am
         /\ _ignore_unknown' = iu
    /\ pc' = "idle"
    /\ UNCHANGED <<dependencyManager, current, gate, report, log, done, call>>

\* pytest_runtest_setup(item) for the next item the runner takes, its marker
\* among markers, in a session of at most limit tests
runtest_setup_step(markers, limit) ==
    /\ pc = "idle"
    /\ Cardinality(done) < limit
    /\ \E item \in Items \ done, marker \in markers :
         /\ current' = [item |-> item, marked |-> marker.present, name |-> marker.name]
         /\ gate' = [hook |-> "pytest_runtest_setup", item |-> item,
                     depends |-> marker.depends, scope |-> markerScope(marker),
                     given |-> marker.include_all_instances,
                     include_all_instances |-> TRUE,
                     outcome |-> runtest_setup(dependencyManager, item, marker)]
         /\ dependencyManager' =
              IF setupChecks(marker)
              THEN gateAttrs(dependencyManager, item, markerScope(marker))
              ELSE dependencyManager
         /\ log' = [log EXCEPT
                      ![item].marked = marker.present,
                      ![item].name = marker.name,
                      ![item].gated =
                          (runtest_setup(dependencyManager, item, marker).kind = "skip")]
    /\ pc' = "setup"
    /\ report' = NoReport
    /\ UNCHANGED <<_accept_xfail, _automark, _ignore_unknown, done, call>>

pytest_runtest_setup(markers) == runtest_setup_step(markers, MaxTests)

\* depends(request, other, scope, include_all_instances), called once by the
\* test body, other among lists and scope among scopes; include_all_instances
\* is not given (the default False applies), False or True
depends(lists, scopes) ==
    /\ pc = "call"
    /\ gate = NoGate
    /\ \E other \in lists, scope \in scopes, given \in {<<>>, <<FALSE>>, <<TRUE>>} :
         LET include_all_instances == IF given = <<>> THEN FALSE ELSE given[1]
         IN /\ gate' = [hook |-> "depends", item |-> current.item,
                        depends |-> other, scope |-> scope,
                        given |-> given,
                        include_all_instances |-> include_all_instances,
                        outcome |-> gateOutcome(dependencyManager, current.item, other,
                                                scope, include_all_instances)]
            /\ dependencyManager' = gateAttrs(dependencyManager, current.item, scope)
    /\ report' = NoReport
    /\ UNCHANGED <<_accept_xfail, _automark, _ignore_unknown, pc, current, log, done,
                   call>>

\* the reports pytest can make of the phase: a pytest.skip() from the check
\* gives skipped, an exception gives failed (or an xfail's skipped), and a
\* check that returned leaves the phase's outcome open
PhaseReports(reports, when) ==
    {r \in reports :
        /\ r.when = when
        /\ gate.outcome.kind = "skip" => r.outcome = "skipped" /\ ~r.wasxfail
        /\ gate.outcome.kind = "error" =>
              \/ r.outcome = "failed" /\ ~r.wasxfail
              \/ r.outcome = "skipped" /\ r.wasxfail}

\* the phase the runner runs after this report
NextPc(rep) ==
    IF rep.when = "setup" THEN (IF rep.outcome = "passed" THEN "call" ELSE "teardown")
    ELSE IF rep.when = "call" THEN "teardown"
    ELSE "idle"

\* the reports of tests without xfail
PlainReports == {r \in Reports : ~r.wasxfail}

\* pytest_runtest_makereport(item, call) after the phase pc names, the
\* report among reports
pytest_runtest_makereport(reports) ==
    /\ pc \in {"setup", "call", "teardown"}
    /\ \E rep \in PhaseReports(reports, pc) :
         /\ dependencyManager' =
              runtest_makereport(dependencyManager, current.item, current.marked,
                                 current.name, rep)
         /\ pc' = NextPc(rep)
         /\ report' = rep
         /\ log' = [log EXCEPT ![current.item][rep.when] = rep.outcome]
    /\ gate' = NoGate
    /\ current' = current
    /\ done' = IF pc = "teardown" THEN done \cup {current.item} ELSE done
    /\ UNCHANGED <<_accept_xfail, _automark, _ignore_unknown, call>>

\* any ini file, the default command line, few dependency declarations
Next ==
    \/ pytest_configure(BOOLEAN, {FALSE})
    \/ pytest_runtest_setup(FewMarkers)
    \/ depends({<<<<"test_create">>>>}, {"module", BadScope})
    \/ pytest_runtest_makereport(Reports)

Spec == Init /\ [][Next]_vars

\* the default ini file and no xfail, many dependency declarations
NextGate ==
    \/ pytest_configure({FALSE}, BOOLEAN)
    \/ pytest_runtest_setup(ManyMarkers)
    \/ depends(DepLists, {"module", "class", BadScope})
    \/ pytest_runtest_makereport(PlainReports)

SpecGate == Init /\ [][NextGate]_vars

\* the number of tests of a session in which dependencies chain
MaxChain == 3

\* the lists that chain the three tests at module scope: one name, that of
\* test_create or that of the method of class C
ChainLists == { <<<<"test_create">>>>, <<<<"C", "::", "test_modify">>>> }

ChainMarkers == MarkersOver(ChainLists, {None})

\* the reports of tests without xfail whose setup passes or is skipped and
\* whose teardown passes
ChainReports ==
    {r \in PlainReports :
        /\ r.when = "setup" => r.outcome # "failed"
        /\ r.when = "teardown" => r.outcome = "passed"}

\* the default ini file and no xfail, three tests that depend on each other
NextChain ==
    \/ pytest_configure({FALSE}, BOOLEAN)
    \/ runtest_setup_step(ChainMarkers, MaxChain)
    \/ depends(ChainLists, {"module"})
    \/ pytest_runtest_makereport(ChainReports)

SpecChain == Init /\ [][NextChain]_vars

----------------------------------------------------------------------------
(* Direct calls of the module's classes and functions.  The functions     *)
(* called keep nothing between calls, so one call is made from each state  *)
(* of the globals.                                                         *)

\* DependencyManager(scope).addResult(item, name, rep) on a manager made by
\* the constructor, which takes any scope
addResult_call ==
    /\ call = NoCall
    /\ \E scope \in Scopes \cup {BadScope}, item \in Items, name \in MarkerNames,
          rep \in Reports :
         LET self == DependencyManager(scope)
             exc  == addResultRaises(self, item, name)
         IN call' = [fn |-> "addResult", self |-> self, item |-> item,
                     name |-> name, rep |-> rep,
                     outcome |-> IF exc # None THEN Raise(exc) ELSE Proceed,
                     result |-> addResult(self, item, name, rep)]
    /\ UNCHANGED <<_accept_xfail, _automark, _ignore_unknown, dependencyManager,
                   pc, current, gate, report, log, done>>

\* an exception raised with a message
RaiseMsg(exc, msg) == [kind |-> "error", reason |-> msg, exc |-> exc]

\* pytest.ExitCode: the member names, that of value v at place v + 1
ExitCode ==
    <<"OK", "TESTS_FAILED", "INTERRUPTED", "INTERNAL_ERROR", "USAGE_ERROR",
      "NO_TESTS_COLLECTED">>

\* the largest plain integer given as an exit status
MaxInt == 6

\* the exit statuses: the members of pytest.ExitCode and plain integers
ReturnCodes ==
    [enum : {TRUE}, value : 0..(Len(ExitCode) - 1)]
    \cup [enum : {FALSE}, value : 0..MaxInt]

\* return_code.name: an ExitCode has it, an int has not
hasName(return_code) == return_code.enum

\* broken assets: __name__ and __doc__ (<<>> for a docstring that is None or "")
BrokenAssets ==
    { [name |-> "_TestA", doc |-> <<"returns a constant">>],
      [name |-> "_TestB", doc |-> <<>>] }

\* ta_cfg.STUDENT_TEST_FILE_PATH and ta_cfg.BROKEN_ASSETS_FILE_PATH
ta_cfg ==
    [STUDENT_TEST_FILE_PATH |-> "tests/test_student.py",
     BROKEN_ASSETS_FILE_PATH |-> "tests/broken.py"]

\* assert_fails_with_broken_asset(broken_asset, return_code, ta_cfg).
\* An IntEnum member equals the integer of its value.
assert_fails_with_broken_asset(broken_asset, return_code) ==
    IF return_code.value = 0
    THEN LET hint == IF broken_asset.doc # <<>>
                     THEN <<"Nossa dica é: '">> \o broken_asset.doc \o <<"'\n">>
                     ELSE <<"Verifique se seus testes atendem aos detalhes do requisito.\n">>
         IN RaiseMsg("AssertionError",
                <<"Seus testes em '", ta_cfg.STUDENT_TEST_FILE_PATH,
                  "' deveriam falhar com a função '", broken_asset.name,
                  "' do arquivo '", ta_cfg.BROKEN_ASSETS_FILE_PATH, "'.\n">> \o hint)
    ELSE IF return_code.value # 1
         THEN IF hasName(return_code)
              THEN RaiseMsg("AssertionError",
                     <<"Ocorreu algum erro inexperado ao executar seus testes.\n",
                       "Código de saída: ", ExitCode[return_code.value + 1], "\n">>)
              ELSE Raise("AttributeError")
         ELSE Proceed

\* a call of assert_fails_with_broken_asset
assert_fails_call ==
    /\ call = NoCall
    /\ \E broken_asset \in BrokenAssets, return_code \in ReturnCodes :
         call' = [fn |-> "assert_fails_with_broken_asset",
                  broken_asset |-> broken_asset, return_code |-> return_code,
                  outcome |-> assert_fails_with_broken_asset(broken_asset, return_code)]
    /\ UNCHANGED <<_accept_xfail, _automark, _ignore_unknown, dependencyManager,
                   pc, current, gate, report, log, done>>

\* The objects a mocks module can hold, with what inspect tells of each:
\* function, class or other, the module it was defined in, its docstring
\* ("" for None).
AssetInfo ==
    [fA    |-> [kind |-> "function", module |-> "mocks",     doc |-> "returns a constant"],
     cB    |-> [kind |-> "class",    module |-> "mocks",     doc |-> ""],
     fI    |-> [kind |-> "function", module |-> "elsewhere", doc |-> ""],
     four  |-> [kind |-> "other",    module |-> None,        doc |-> ""],
     fH    |-> [kind |-> "function", module |-> "mocks",     doc |-> ""]]

\* the members a mocks module can have, as inspect.getmembers lists them
\* (sorted by name): _TEST_CONST, _TestA, _TestB, _TestImported, _testalias
\* (a second name of the object of _TestA), helper
AllMembers ==
    << [name |-> <<"_TEST", "_CONST">>,   asset |-> "four"],
       [name |-> <<"_Test", "A">>,        asset |-> "fA"],
       [name |-> <<"_Test", "B">>,        asset |-> "cB"],
       [name |-> <<"_Test", "Imported">>, asset |-> "fI"],
       [name |-> <<"_test", "alias">>,    asset |-> "fA"],
       [name |-> <<"helper">>,            asset |-> "fH"] >>

\* the mocks modules: any of these members
MocksModules ==
    {SelectSeq(AllMembers, LAMBDA m : m.name \in S) :
        S \in SUBSET {AllMembers[i].name : i \in 1..Len(AllMembers)}}

\* str.lower, token by token
lower(name) ==
    [i \in 1..Len(name) |->
        CASE name[i] \in {"_Test", "_TEST"} -> "_test"
          [] name[i] = "A" -> "a"
          [] name[i] = "B" -> "b"
          [] name[i] = "_CONST" -> "_const"
          [] name[i] = "Imported" -> "imported"
          [] OTHER -> name[i]]

\* a dict as the list of its items in insertion order: d[key] = value
dict_set(d, key, value) ==
    IF \E i \in 1..Len(d) : d[i].key = key
    THEN [i \in 1..Len(d) |-> IF d[i].key = key THEN [key |-> key, value |-> value]
                                ELSE d[i]]
    ELSE Append(d, [key |-> key, value |-> value])

\* key in d
dict_in(d, key) == \E i \in 1..Len(d) : d[i].key = key

\* _build_asset_map(mocks_module): the dict asset -> asset_name
RECURSIVE _build_asset_map(_)
_build_asset_map(mocks_module) ==
    IF mocks_module = <<>> THEN <<>>
    ELSE LET n == Len(mocks_module)
             m == mocks_module[n]
             before == _build_asset_map(SubSeq(mocks_module, 1, n - 1))
         IN IF /\ AssetInfo[m.asset].kind \in {"class", "function"}
               /\ startswith(lower(m.name), <<"_test">>)
               /\ AssetInfo[m.asset].module = "mocks"
            THEN dict_set(before, m.asset, m.name)
            ELSE before

\* mark_xfail(mocked, expected)
mark_xfail(mocked, expected) ==
    [values |-> mocked,
     marks |-> << [mark |-> "xfail", raises |-> expected,
                   reason |-> IF AssetInfo[mocked].doc # ""
                              THEN AssetInfo[mocked].doc ELSE "Should fail",
                   strict |-> TRUE],
                  [mark |-> "dependency", depends |-> <<>>] >>]

\* mark_dependency(mocked, dependent_tests)
mark_dependency(mocked, dependent_tests) ==
    [values |-> mocked,
     marks |-> << [mark |-> "dependency", depends |-> dependent_tests] >>]

\* a variant of _build_mocking_config whose first list takes every asset
_build_mocking_config_unfiltered(asset_to_mock, custom_exceptions, asset_map, mocked_test_names) ==
    [i \in 1..Len(asset_map) |-> mark_xfail(asset_map[i].key, "AssertionError")]
    \o [i \in 1..Len(custom_exceptions) |->
            mark_xfail(custom_exceptions[i].key, custom_exceptions[i].value)]
    \o <<mark_dependency(asset_to_mock, mocked_test_names)>>

\* _build_mocking_config(asset_to_mock, custom_exceptions, asset_map, mocked_test_names)
_build_mocking_config(asset_to_mock, custom_exceptions, asset_map, mocked_test_names) ==
    LET plain == SelectSeq(asset_map, LAMBDA e : ~dict_in(custom_exceptions, e.key))
    IN [i \in 1..Len(plain) |-> mark_xfail(plain[i].key, "AssertionError")]
       \o [i \in 1..Len(custom_exceptions) |->
               mark_xfail(custom_exceptions[i].key, custom_exceptions[i].value)]
       \o <<mark_dependency(asset_to_mock, mocked_test_names)>>

\* build_mocked_assets(mocks_module, asset_to_mock, test_function,
\* custom_exceptions): the exception raised, or the list returned
build_mocked_assets(mocks_module, asset_to_mock, test_function, custom_exceptions) ==
    LET asset_map == _build_asset_map(mocks_module)
        mocked_test_names ==
            [i \in 1..Len(asset_map) |->
                <<test_function, "[">> \o asset_map[i].value \o <<"]">>]
    IN IF \E i \in 1..Len(custom_exceptions) :
              ~dict_in(asset_map, custom_exceptions[i].key)
       THEN [outcome |-> Raise("ValueError"), value |-> <<>>]
       ELSE [outcome |-> Proceed,
             value |-> _build_mocking_config(asset_to_mock, custom_exceptions,
                                             asset_map, mocked_test_names)]

\* the most items a custom_exceptions dict has
MaxOverrides == 2

\* the custom_exceptions dicts: keys among two mutants of the module and a
\* function of another module
OverrideKeys == {"fA", "cB", "fI"}

RECURSIVE DictsOver(_, _)
DictsOver(keys, n) ==
    IF n = 0 THEN {<<>>}
    ELSE LET shorter == DictsOver(keys, n - 1)
         IN shorter \cup
            {Append(d, [key |-> k, value |-> "TypeError"]) :
                d \in {e \in shorter : Len(e) = n - 1}, k \in keys}

CustomExceptions ==
    {d \in DictsOver(OverrideKeys, MaxOverrides) :
        \A i, j \in 1..Len(d) : d[i].key = d[j].key => i = j}

\* a call of build_mocked_assets for the asset "real" and the test test_f
build_mocked_assets_call ==
    /\ call = NoCall
    /\ \E mocks_module \in MocksModules, custom_exceptions \in CustomExceptions :
         LET got == build_mocked_assets(mocks_module, "real", "test_f", custom_exceptions)
         IN call' = [fn |-> "build_mocked_assets", mocks_module |-> mocks_module,
                     custom_exceptions |-> custom_exceptions,
                     outcome |-> got.outcome, result |-> got.value]
    /\ UNCHANGED <<_accept_xfail, _automark, _ignore_unknown, dependencyManager,
                   pc, current, gate, report, log, done>>

\* calls made from outside a run, under any ini file
NextCalls ==
    \/ pytest_configure(BOOLEAN, {FALSE})
    \/ addResult_call
    \/ assert_fails_call
    \/ build_mocked_assets_call

SpecCalls == Init /\ [][NextCalls]_vars

----------------------------------------------------------------------------
(* Vocabulary of the properties *)

PhaseNames == {"setup", "call", "teardown"}

\* all three phases recorded as passed, said without isSuccess
AllPassed(status) == \A w \in PhaseNames : status[w] = "passed"

\* a dependency check ran and reached checkDepend: gate holds its arguments
\* and, as checkDepend writes nothing, the results it read are still in place
GateChecked ==
    /\ gate.hook # None
    /\ gate.depends # <<>>
    /\ gate.scope \in Scopes
    /\ getManagerNode(gate.item, gate.scope) # None

GateResults == dependencyManager[getManagerNode(gate.item, gate.scope)].results

Registered(results, name) == \E i \in 1..Len(results) : results[i].name = name

StatusOf(results, name) ==
    (CHOOSE e \in {results[i] : i \in 1..Len(results)} : e.name = name).status

\* the registered names that start with dep
Instances(results, dep) ==
    {results[i].name : i \in {k \in 1..Len(results) : startswith(results[k].name, dep)}}

\* the name the runner's last item is recorded under in a manager of this scope
CurrentKey(scope) ==
    IF current.marked /\ current.name # NoName THEN current.name
    ELSE derivedName(scope, ItemInfo[current.item].nodeid)

\* the last item's outcomes are recorded (marker or automark)
CurrentRecorded == current.marked \/ _automark

\* the scopes in which the last item has an enclosing node
CurrentScopes == {s \in Scopes : getManagerNode(current.item, s) # None}

----------------------------------------------------------------------------
(* Properties *)

\* C1 (as claimed): when pytest_runtest_setup checks B's single dependency on
\* another test A in the scope-S registry, B is skipped iff A is not recorded
\* as passed in all three phases, except that an unregistered A with
\* ignore-unknown on is let through.
C1_SkippedIffDependencyNotPassed ==
    (pc = "setup" /\ gate.hook = "pytest_runtest_setup" /\ GateChecked
        /\ Len(gate.depends) = 1 /\ gate.depends[1] # CurrentKey(gate.scope))
    => LET a == gate.depends[1]
           known == Registered(GateResults, a)
           passed == known /\ AllPassed(StatusOf(GateResults, a))
       IN (gate.outcome.kind = "skip") <=> (~passed /\ ~(~known /\ _ignore_unknown))


\* the end-to-end file of C2: test_create ran first and is over, and now
\* test_modify, declared depends=["test_create"] at file scope, is checked
\* under the default configuration
C2_File ==
    /\ ~_automark /\ ~_ignore_unknown /\ ~_accept_xfail
    /\ done = {"create"}
    /\ pc = "setup" /\ gate.hook = "pytest_runtest_setup"
    /\ gate.item = "modifyC"
    /\ gate.depends = <<<<"test_create">>>>
    /\ gate.scope = "module"

C2_Reason == <<"test_modify", " depends on ", "test_create">>

\* what C2 says of test_modify, given the outcomes test_create reported
C2_Verdict ==
    /\ log["create"].call = "failed" => gate.outcome = Skip(C2_Reason)
    /\ (\A w \in PhaseNames : log["create"][w] = "passed")
          => gate.outcome.kind = "proceed"

C3_Satisfied(results, d) ==
    IF Instances(results, d) = {} THEN _ignore_unknown
    ELSE \A n \in Instances(results, d) : isSuccess(StatusOf(results, n))

\* C3 (as claimed): in prefix-match mode the check lets the test through iff
\* every name of the list is satisfied: every registered name starting with it
\* is successful, and when none starts with it, ignore-unknown is on.
C3_PrefixMode ==
    (GateChecked /\ gate.include_all_instances)
    => ((gate.outcome.kind = "proceed")
          <=> \A i \in 1..Len(gate.depends) : C3_Satisfied(GateResults, gate.depends[i]))

\* a name is unsatisfied in exact-match mode
C4_Unsatisfied(results, d) ==
    \/ Registered(results, d) /\ ~isSuccess(StatusOf(results, d))
    \/ ~Registered(results, d) /\ ~_ignore_unknown

\* C4: in exact-match mode the check signals skip iff the list holds an
\* unsatisfied name (registered and not successful, or unregistered with
\* ignore-unknown off), and otherwise returns.
C4_ExactMode ==
    (GateChecked /\ ~gate.include_all_instances)
    => /\ (gate.outcome.kind = "skip")
             <=> \E i \in 1..Len(gate.depends) : C4_Unsatisfied(GateResults, gate.depends[i])
       /\ gate.outcome.kind \in {"skip", "proceed"}

\* a skip after a satisfied first name, and an unregistered name let through
C4_Witness ==
    /\ GateChecked /\ ~gate.include_all_instances
    /\ Len(gate.depends) = 2
    /\ Registered(GateResults, gate.depends[1])
    /\ ~C4_Unsatisfied(GateResults, gate.depends[1])
    /\ gate.outcome.kind = "skip"

\* C5 (as claimed): a check for a test with no enclosing node of the requested
\* scope is vacuously satisfied: neither a skip nor an error.
C5_NoEnclosingNode ==
    (gate.hook # None /\ gate.depends # <<>> /\ gate.scope \in Scopes
        /\ getManagerNode(gate.item, gate.scope) = None)
    => gate.outcome.kind = "proceed"

\* every status a manager holds
AllStatuses ==
    UNION {{dependencyManager[n].results[i].status :
               i \in 1..Len(dependencyManager[n].results)} : n \in Nodes}

\* C6: a status is successful iff setup, call and teardown are all recorded as
\* passed; a fresh status is not successful.
C6_SuccessIffAllPassed ==
    /\ \A st \in AllStatuses : isSuccess(st) <=> AllPassed(st)
    /\ ~isSuccess(DependencyItemStatus)

C6_Witness ==
    /\ \E st \in AllStatuses : isSuccess(st)
    /\ \E st \in AllStatuses :
          st["setup"] = "passed" /\ st["call"] = "passed" /\ st["teardown"] = None

\* the report is the expected-failure skip of a call
XfailSkip(rep) == rep.when = "call" /\ rep.outcome = "skipped" /\ rep.wasxfail

\* C7: what the last report left in every manager that records the item: passed
\* for an expected-failure skip of the call with accept_xfail on, the reported
\* outcome otherwise; with accept_xfail off such a skip is no success.
C7_StoredOutcome ==
    (report # NoReport /\ CurrentRecorded)
    => \A s \in CurrentScopes :
          LET results == dependencyManager[getManagerNode(current.item, s)].results
              stored == StatusOf(results, CurrentKey(s))[report.when]
          IN /\ Registered(results, CurrentKey(s))
             /\ (XfailSkip(report) /\ _accept_xfail) => stored = "passed"
             /\ (XfailSkip(report) /\ ~_accept_xfail)
                   => stored = "skipped" /\ ~isSuccess(StatusOf(results, CurrentKey(s)))
             /\ ~XfailSkip(report) => stored = report.outcome

C7_Witness ==
    /\ report # NoReport /\ CurrentRecorded
    /\ XfailSkip(report) /\ _accept_xfail
    /\ StatusOf(dependencyManager["mod"].results, CurrentKey("module"))["call"] = "passed"


\* the items below a node
ItemsOf(n) == {i \in Items : \E k \in 1..Len(ItemInfo[i].chain) : ItemInfo[i].chain[k] = n}

\* the names an item can be recorded under in a manager of this scope
NamesOf(i, scope) ==
    (MarkerNames \ {NoName}) \cup {derivedName(scope, ItemInfo[i].nodeid)}

\* a recorded status agrees with what the runner reported of the item
FromLog(status, i) ==
    \A w \in PhaseNames :
        \/ status[w] = log[i][w]
        \/ _accept_xfail /\ w = "call" /\ log[i][w] = "skipped" /\ status[w] = "passed"

ClassNodes == {n \in Nodes : NodeCls[n] = "pytest.Class"}

\* C8: a class node's manager is made once and kept: whatever it holds is what
\* the tests of that very class reported so far, under their names, with
\* nothing reset and nothing taken from the other class, also when both
\* classes record the same name; and a check against a class's manager skips
\* only for a test of that very class that reported a phase not passed.
C8_OneRegistryPerNode ==
    /\ \A n \in ClassNodes :
        /\ dependencyManager[n] # NoAttr => dependencyManager[n].scope = "class"
        /\ \A k \in 1..Len(dependencyManager[n].results) :
              LET e == dependencyManager[n].results[k]
              IN \E i \in ItemsOf(n) :
                    /\ e.name \in NamesOf(i, "class")
                    /\ FromLog(e.status, i)
        /\ \A i \in ItemsOf(n) :
              (log[i].setup # None /\ (log[i].marked \/ _automark))
                 => dependencyManager[n].results # <<>>
    /\ (GateChecked /\ gate.scope = "class" /\ gate.outcome.kind = "skip")
          => \E i \in ItemsOf(getManagerNode(gate.item, "class")) :
                /\ log[i].marked \/ _automark
                /\ \E w \in PhaseNames : log[i][w] \notin {None, "passed"}

\* class C holds the name test_create with a failed call, and the check of
\* that name for the test of class C2 does not see it
C8_Witness ==
    /\ gate.hook = "pytest_runtest_setup" /\ gate.item = "modifyC2"
    /\ gate.scope = "class" /\ gate.depends = <<<<"test_create">>>>
    /\ Registered(dependencyManager["clsC"].results, <<"test_create">>)
    /\ StatusOf(dependencyManager["clsC"].results, <<"test_create">>)["call"] = "failed"
    /\ dependencyManager["clsC2"] = DependencyManager("class")
    /\ gate.outcome.kind = "proceed"

\* C9: after a phase of a recorded test, every enclosing scope node (session,
\* package, module, class, as far as the test has them) has a manager of that
\* scope holding the test's name with this phase recorded.
C9_EveryEnclosingScope ==
    (report # NoReport /\ CurrentRecorded)
    => \A s \in Scopes :
          LET n == getparent(current.item, ScopeCls[s])
          IN n # None
             => /\ dependencyManager[n].scope = s
                /\ Registered(dependencyManager[n].results, CurrentKey(s))
                /\ StatusOf(dependencyManager[n].results, CurrentKey(s))[report.when] # None

\* a method declared at module scope is recorded in all four scopes
C9_Witness ==
    /\ report.when = "teardown" /\ current.marked /\ current.item = "modifyC"
    /\ \A n \in {"session", "pkg", "mod", "clsC"} :
          dependencyManager[n].results # <<>>
    /\ dependencyManager["clsC2"].results = <<>>

\* the items that have reported a phase
Started == {i \in Items : log[i].setup # None}

\* C10: outcomes are recorded iff the test has the marker or automark is on:
\* every name a manager holds comes from a started test with the marker (any
\* started test with automark), so unmarked tests leave every manager empty;
\* and every phase reported of such a test is in the session's manager.
C10_RecordedIffMarked ==
    /\ \A n \in Nodes : \A k \in 1..Len(dependencyManager[n].results) :
          \E i \in ItemsOf(n) \cap Started :
              /\ log[i].marked \/ _automark
              /\ dependencyManager[n].results[k].name
                    \in NamesOf(i, dependencyManager[n].scope)
    /\ (report # NoReport /\ CurrentRecorded)
          => /\ Registered(dependencyManager["session"].results, CurrentKey("session"))
             /\ StatusOf(dependencyManager["session"].results,
                         CurrentKey("session"))[report.when] # None

\* two unmarked tests are over and nothing is recorded
C10_Witness ==
    /\ ~_automark /\ Cardinality(done) = 2 /\ \A i \in done : ~log[i].marked
    /\ report.when = "teardown"
    /\ \A n \in Nodes : dependencyManager[n].results = <<>>

\* the first name of the list that is unsatisfied in the mode of the check
C11_FirstUnsatisfied ==
    LET bad == {i \in 1..Len(gate.depends) :
                   IF gate.include_all_instances
                   THEN ~C3_Satisfied(GateResults, gate.depends[i])
                   ELSE C4_Unsatisfied(GateResults, gate.depends[i])}
    IN IF bad = {} THEN 0 ELSE CHOOSE i \in bad : \A j \in bad : i <= j

\* C11 (as claimed): whenever a check signals skip, in exact-match and in
\* prefix-match mode, the reason is "<requesting test name> depends on <d>"
\* with d, as declared, the first unsatisfied name of the list.
C11_ReasonNamesFirstUnsatisfied ==
    (GateChecked /\ gate.outcome.kind = "skip")
    => /\ C11_FirstUnsatisfied # 0
       /\ gate.outcome.reason =
             ItemInfo[gate.item].name \o <<" depends on ">>
                \o gate.depends[C11_FirstUnsatisfied]

\* C12 (as claimed): the declarative check matches by prefix unless the
\* marker gives include_all_instances (then it uses the value given), and
\* depends() matches exactly unless the caller gives the flag (then it uses
\* the value given).
C12_FlagOfTheDeclaration ==
    GateChecked
    => gate.include_all_instances =
          IF gate.given # <<>> THEN gate.given[1]
          ELSE gate.hook = "pytest_runtest_setup"

\* the names of C13, written out for the three tests: the node id with
\* "::()::" replaced by "::", whole for session and package, without the file
\* for module, without the file and the class for class (<<>>: no such node)
C13_Derived ==
    [i \in Items |->
        CASE i = "create" ->
               [session |-> <<"pkg/test_m.py", "::", "test_create">>,
                package |-> <<"pkg/test_m.py", "::", "test_create">>,
                module  |-> <<"test_create">>,
                class   |-> <<>>]
          [] i = "modifyC" ->
               [session |-> <<"pkg/test_m.py", "::", "C", "::", "test_modify">>,
                package |-> <<"pkg/test_m.py", "::", "C", "::", "test_modify">>,
                module  |-> <<"C", "::", "test_modify">>,
                class   |-> <<"test_modify">>]
          [] OTHER ->
               [session |-> <<"pkg/test_m.py", "::", "C", "2", "::", "test_modify">>,
                package |-> <<"pkg/test_m.py", "::", "C", "2", "::", "test_modify">>,
                module  |-> <<"C", "2", "::", "test_modify">>,
                class   |-> <<"test_modify">>]]

\* the name C13 has the last item recorded under in scope s
C13_Key(s) ==
    IF current.marked /\ current.name # NoName THEN current.name
    ELSE C13_Derived[current.item][s]

\* C13: a phase outcome is stored under the explicit name when the marker
\* gives one, the same in every scope, and otherwise under the name derived
\* from the node id for the scope; no manager holds any other name.
C13_RecordedName ==
    /\ (report # NoReport /\ CurrentRecorded)
          => \A s \in CurrentScopes :
                LET results == dependencyManager[getManagerNode(current.item, s)].results
                IN /\ Registered(results, C13_Key(s))
                   /\ StatusOf(results, C13_Key(s))[report.when] # None
    /\ \A n \in Nodes : \A k \in 1..Len(dependencyManager[n].results) :
          \E i \in ItemsOf(n) :
              dependencyManager[n].results[k].name
                 \in (MarkerNames \ {NoName})
                        \cup {C13_Derived[i][dependencyManager[n].scope]}

\* the method with the old-style node id is recorded under its derived names
C13_Witness ==
    /\ report.when = "teardown" /\ current.item = "modifyC2"
    /\ CurrentRecorded /\ ~(current.marked /\ current.name # NoName)
    /\ Registered(dependencyManager["clsC2"].results, <<"test_modify">>)
    /\ Registered(dependencyManager["mod"].results, <<"C", "2", "::", "test_modify">>)
    /\ Registered(dependencyManager["session"].results,
                  <<"pkg/test_m.py", "::", "C", "2", "::", "test_modify">>)

C15_Carries(msg, piece) == \E i \in 1..Len(msg) : msg[i] = piece

\* C15 (as claimed): for an exit status given as an ExitCode or as a plain
\* integer, OK raises AssertionError naming the broken asset, with its
\* docstring when it has one; TESTS_FAILED raises nothing; any other status
\* raises AssertionError.
C15_TotalOverExitStatuses ==
    call.fn = "assert_fails_with_broken_asset"
    => LET out == call.outcome
           v == call.return_code.value
       IN /\ v = 0 => /\ out.kind = "error" /\ out.exc = "AssertionError"
                       /\ C15_Carries(out.reason, call.broken_asset.name)
                       /\ call.broken_asset.doc # <<>>
                             => C15_Carries(out.reason, call.broken_asset.doc[1])
          /\ v = 1 => out.kind = "proceed"
          /\ v \notin {0, 1} => out.kind = "error" /\ out.exc = "AssertionError"

\* a member of a mocks module counts as a mutant: a function or class of the
\* module itself whose name starts with _test in any case
C16_IsMutant(m) ==
    /\ m.name[1] \in {"_test", "_Test", "_TEST"}
    /\ m.asset \in {"fA", "cB", "fH"}

\* the discovered mutants of the call, and the names each is a member under
C16_Mutants ==
    {call.mocks_module[i].asset :
        i \in {k \in 1..Len(call.mocks_module) : C16_IsMutant(call.mocks_module[k])}}

C16_NamesOf(a) ==
    {call.mocks_module[i].name :
        i \in {k \in 1..Len(call.mocks_module) :
                  C16_IsMutant(call.mocks_module[k]) /\ call.mocks_module[k].asset = a}}

\* the expected failure kind of a mutant: the override, else AssertionError
C16_Expected(a) ==
    LET over == {i \in 1..Len(call.custom_exceptions) : call.custom_exceptions[i].key = a}
    IN IF over = {} THEN "AssertionError"
       ELSE call.custom_exceptions[CHOOSE i \in over : TRUE].value

\* C16: with an override key that is no discovered mutant the call raises
\* ValueError and returns nothing; otherwise it returns one strict xfail
\* variant per discovered mutant, of the overridden kind or AssertionError,
\* never two for one mutant, and then one variant for the real asset whose
\* depends list has a name test_function[mutant name] for every mutant.
C16_OneVariantPerMutant ==
    call.fn = "build_mocked_assets"
    => IF \E i \in 1..Len(call.custom_exceptions) :
             call.custom_exceptions[i].key \notin C16_Mutants
       THEN call.outcome = Raise("ValueError") /\ call.result = <<>>
       ELSE LET n == Cardinality(C16_Mutants)
                last == call.result[n + 1]
            IN /\ call.outcome = Proceed
               /\ Len(call.result) = n + 1
               /\ \A a \in C16_Mutants :
                     \E i \in 1..n :
                        /\ call.result[i].values = a
                        /\ call.result[i].marks[1].mark = "xfail"
                        /\ call.result[i].marks[1].raises = C16_Expected(a)
                        /\ call.result[i].marks[1].strict
                        /\ \A j \in 1..n : call.result[j].values = a => j = i
               /\ last.values = "real"
               /\ Len(last.marks) = 1 /\ last.marks[1].mark = "dependency"
               /\ Len(last.marks[1].depends) = n
               /\ \A a \in C16_Mutants :
                     \E name \in C16_NamesOf(a) :
                        \E k \in 1..n :
                           last.marks[1].depends[k] = <<"test_f", "[">> \o name \o <<"]">>

\* two mutants, one of them overridden, give three variants
C16_Witness ==
    /\ call.fn = "build_mocked_assets"
    /\ C16_Mutants = {"fA", "cB"}
    /\ Len(call.custom_exceptions) = 1 /\ call.custom_exceptions[1].key = "cB"
    /\ call.outcome = Proceed
    /\ Len(call.result) = 3

\* the name argument the hook gives addResult for the last item
C17_Name == IF current.marked THEN current.name ELSE NoName

\* C17: in every manager that records the last item, recording the report
\* just recorded a second time, for the same test, leaves the registry, the
\* name's phase map and its isSuccess() as they were after the first time.
C17_RecordingTwice ==
    (current.item # None /\ CurrentRecorded /\ report # NoReport)
    => \A s \in CurrentScopes :
          LET once == dependencyManager[getManagerNode(current.item, s)]
              twice == addResult(once, current.item, C17_Name, report)
          IN /\ twice = once
             /\ StatusOf(twice.results, CurrentKey(s)) = StatusOf(once.results, CurrentKey(s))
             /\ isSuccess(StatusOf(twice.results, CurrentKey(s)))
                   = isSuccess(StatusOf(once.results, CurrentKey(s)))

\* a successful status, whose last report is then recorded again
C17_Witness ==
    /\ report.when = "teardown" /\ current.item = "modifyC" /\ CurrentRecorded
    /\ isSuccess(StatusOf(dependencyManager["clsC"].results, CurrentKey("class")))
    /\ Len(dependencyManager["mod"].results) = 2

\* what a recording step may change in the registry of node n: nothing but
\* the phase just reported of the name the test, when it is below n, is
\* recorded under there
C20_Frame(n) ==
    LET old == dependencyManager[n].results
        new == dependencyManager'[n].results
        key == CurrentKey(dependencyManager'[n].scope)
    IN /\ \A k \in 1..Len(old) : Registered(new, old[k].name)
       /\ \A i, j \in 1..Len(new) : new[i].name = new[j].name => i = j
       /\ \A k \in 1..Len(new) :
             LET name == new[k].name
                 before == IF Registered(old, name) THEN StatusOf(old, name)
                           ELSE [w \in PhaseNames |-> None]
             IN /\ ~Registered(old, name) => (name = key /\ current.item \in ItemsOf(n))
                /\ \A w \in PhaseNames :
                      new[k].status[w] # before[w]
                         => (name = key /\ w = report'.when /\ current.item \in ItemsOf(n))

\* C20: a recording changes only the reported phase of the recorded name's
\* status in each registry: its other phases keep their values, every other
\* name keeps its status, no name goes away, and no name is held twice.
C20_OnlyThePhaseRecorded ==
    [][report' # NoReport => \A n \in Nodes : C20_Frame(n)]_vars

\* two tests recorded under one explicit name share one status: the first
\* failed its call, the second passed all phases, and the status is successful
C20_Witness ==
    /\ done = {"create", "modifyC"} /\ current.item = "modifyC"
    /\ log["create"].marked /\ log["modifyC"].marked
    /\ log["create"].call = "failed"
    /\ Len(dependencyManager["mod"].results) = 1
    /\ isSuccess(StatusOf(dependencyManager["mod"].results, <<"test_create">>))

\* what a dependency check may change at node n: nothing, or the making of
\* an empty manager of the scope asked for on the node located
C19_Frame(n) ==
    /\ dependencyManager'[n].results = dependencyManager[n].results
    /\ dependencyManager'[n] # dependencyManager[n]
          => /\ dependencyManager[n] = NoAttr
             /\ gate'.scope \in Scopes
             /\ n = getparent(gate'.item, ScopeCls[gate'.scope])
             /\ dependencyManager'[n] = [scope |-> gate'.scope, results |-> <<>>]

\* C19: a dependency check, by pytest_runtest_setup or by depends(), ending
\* in proceed or in skip, leaves every recorded outcome of every name in
\* every registry as it was; all it can do is make the empty manager of the
\* node it locates.
C19_CheckChangesNoOutcome ==
    [][gate'.hook # None => \A n \in Nodes : C19_Frame(n)]_vars

\* a check that skipped, made the manager of class C, and left the module's
\* recorded outcomes in place
C19_Witness ==
    /\ gate.hook = "depends" /\ gate.item = "modifyC" /\ gate.scope = "class"
    /\ gate.outcome.kind = "skip"
    /\ dependencyManager["clsC"] = [scope |-> "class", results |-> <<>>]
    /\ dependencyManager["mod"].results # <<>>

\* the name a test is recorded under in a manager of this scope
C18_Key(i, s) ==
    IF log[i].marked /\ log[i].name # NoName THEN log[i].name
    ELSE derivedName(s, ItemInfo[i].nodeid)

\* the marked tests the check of pytest_runtest_setup skipped, once their
\* setup is reported
C18_Gated == {b \in Items : log[b].marked /\ log[b].gated /\ log[b].setup # None}

\* the scopes in which the test has a node
C18_Scopes(b) == {s \in Scopes : getManagerNode(b, s) # None}

\* no other test is recorded under b's name in the registry of b's node
C18_Sole(b, s) ==
    \A o \in Items \ {b} :
        (log[o].setup # None /\ (log[o].marked \/ _automark)
            /\ getManagerNode(o, s) = getManagerNode(b, s))
        => C18_Key(o, s) # C18_Key(b, s)

\* the skip of b propagates in scope s: b's setup is recorded as skipped, b's
\* status is no success, and a check by another test that names b in the
\* registry of s skips
C18_Propagates(b, s) ==
    LET results == dependencyManager[getManagerNode(b, s)].results
    IN /\ log[b].setup = "skipped"
       /\ Registered(results, C18_Key(b, s))
       /\ ~AllPassed(StatusOf(results, C18_Key(b, s)))
       /\ (GateChecked /\ gate.item # b /\ gate.scope = s
              /\ getManagerNode(gate.item, s) = getManagerNode(b, s)
              /\ \E k \in 1..Len(gate.depends) : gate.depends[k] = C18_Key(b, s))
             => gate.outcome.kind = "skip"

\* C18 (as claimed): a marked test B that the check skipped has its setup
\* recorded as skipped, is never successful, and every later test that
\* depends on B in a registry where B is recorded is skipped, in both modes
\* and whatever ignore-unknown is.
C18_SkipsPropagate ==
    \A b \in C18_Gated : \A s \in C18_Scopes(b) : C18_Propagates(b, s)

\* C18 (amended): the same in every registry where no other test is
\* recorded under B's name.
C18_SkipsPropagateSoleName ==
    \A b \in C18_Gated : \A s \in C18_Scopes(b) :
        C18_Sole(b, s) => C18_Propagates(b, s)

\* a chain of three: test_create failed its call, the method of C was
\* skipped for it, and the method of C2 is skipped for the method of C
C18_Witness ==
    /\ log["create"].call = "failed"
    /\ log["modifyC"].gated /\ log["modifyC"].name = NoName
    /\ gate.hook = "pytest_runtest_setup" /\ gate.item = "modifyC2"
    /\ gate.depends = <<<<"C", "::", "test_modify">>>>
    /\ gate.outcome.kind = "skip"

====
